---- MODULE Spec2Model ----
(***************************************************************************)
(* Verification model of the movie-catalog front end:                      *)
(*   - VideoUploadPanel (upload tasks, status polling) inside              *)
(*     AdminDashboard, together with the status endpoint it polls;         *)
(*   - the processing-job state machine of the worker pool;                *)
(*   - MovieDetail (video section) and MovieFrames (thumbnails).           *)
(*                                                                         *)
(* Conventions.  JS numbers are modelled by integers.  Date.now() is       *)
(* modelled by the ordinal of the upload: two file selections for the same *)
(* movie never fall in the same millisecond, so task ids are unique.       *)
(* React state of a component exists only while the component is mounted;  *)
(* state updates issued by closures of an unmounted instance are no-ops.   *)
(* All updates made by one handler continuation are applied together       *)
(* (automatic batching), so one handler is one action.                     *)
(***************************************************************************)
EXTENDS Integers, Sequences, FiniteSets, Bags, TLC

\* ------------------------------------------------------------------ bounds
MaxUploads == 1      \* uploadVideo calls in one run (one more when re-uploading)
MaxInFlight == 2     \* status responses in flight at a time
RetryLimit == 1      \* configured retry limit of the worker pool
MaxJobs == 2         \* jobs submitted in the worker-pool specification

\* ------------------------------------------------------------ JS values
NoValue == "undefined"

Movies == {1, 2}

Uploads == 1..(MaxUploads + 1)

\* String.prototype.startsWith on character sequences
StartsWith(s, p) == Len(s) >= Len(p) /\ SubSeq(s, 1, Len(p)) = p

VideoPrefix == <<"v", "i", "d", "e", "o", "/">>

TypeMp4 == VideoPrefix \o <<"m", "p", "4">>
TypePng == <<"i", "m", "a", "g", "e", "/", "p", "n", "g">>
TypeVideoBare == <<"v", "i", "d", "e", "o">>
TypeEmpty == << >>
TypeAppVideo == <<"x", "/">> \o VideoPrefix

FileTypes == {TypeMp4, TypePng, TypeVideoBare, TypeEmpty, TypeAppVideo}

\* File sizes are byte counts beyond 32 bits: a size is hi * Limb + lo.
Limb == 1024 * 1024

\* const maxSize = 10 * 1024 * 1024 * 1024
maxSize == [hi |-> 10 * 1024, lo |-> 0]

\* a > b on byte counts
SizeGreaterMut(a, b) == a.hi > b.hi

SizeGreater(a, b) == a.hi > b.hi \/ (a.hi = b.hi /\ a.lo > b.lo)

FileSizes ==
  { [hi |-> 0, lo |-> 0], [hi |-> 0, lo |-> 1],
    [hi |-> maxSize.hi - 1, lo |-> Limb - 1], maxSize,
    [hi |-> maxSize.hi, lo |-> 1], [hi |-> maxSize.hi + 1, lo |-> 0] }

Files == [type : FileTypes, size : FileSizes]

GoodFile == [type |-> TypeMp4, size |-> [hi |-> 0, lo |-> 1]]
BadFile == [type |-> TypePng, size |-> [hi |-> 0, lo |-> 1]]

\* FileList | null: isNull marks null, items are the files of the list
FileList(items) == [isNull |-> FALSE, items |-> items]

NullFiles == [isNull |-> TRUE, items |-> << >>]

IngestFileLists ==
  {NullFiles, FileList(<< >>)} \cup {FileList(<<f>>) : f \in Files}
    \cup {FileList(<<GoodFile, BadFile>>), FileList(<<BadFile, GoodFile>>)}

PanelFileLists == {FileList(<<GoodFile>>)}


MaxThumbs == 5       \* thumbnails in a list given to selectEvenlyDistributedFrames
MaxCount == 3        \* the count given to selectEvenlyDistributedFrames
MaxListLen == 2      \* movies in one page returned by getMovies
MaxPages == 2        \* total_pages returned by getMovies
MaxAuthCalls == 1    \* login and register requests in flight at a time

\* -------------------------------------------------------------- variables
VARIABLES
  \* AdminDashboard
  dashLoading,        \* loading
  dashError,          \* error !== null
  activeTab,          \* activeTab
  analyticsInFlight,  \* fetchAnalyticsData calls awaiting their responses
  \* VideoUploadPanel (exists while mounted)
  uploadTasks,        \* uploadTasks
  moviesData,         \* moviesData: loading, and whether movie rows are listed
  now,                \* Date.now(), as the ordinal of the last upload
  lastSelect,         \* argument of the last handleFileSelect call
  \* per uploadVideo call k (closure state and requests in flight)
  uploadMovie,        \* movie.id of the call
  uploadPhase,        \* progress of the POST upload-video request
  attached,           \* the panel instance that owns the closure is mounted
  pollTimer,          \* setInterval handle: "none", "on", "cleared"
  pollResp,           \* status responses on their way back (a bag)
  \* server side: processing jobs
  jobs,               \* job k: state, retry count, asset, transient errors seen
  \* movie page
  pageMovie,          \* useMovie: data (NoMovie for null)
  pageLoading,        \* useMovie: loading
  pageError,          \* useMovie: error !== null
  pageRetryCount,     \* useMovie: retryCount
  frames,             \* MovieFrames state, or unmounted
  framesFetch,        \* thumbnails request: "none", "sent", "done"
  framesOutcome,      \* outcome delivered to fetchThumbnails
  framesThrown,       \* an exception escaped fetchThumbnails
  \* selectEvenlyDistributedFrames on its own
  selection,          \* a call: allThumbnails, count, and the frames returned
  \* MovieList with useMovies
  listState,          \* useMovies state: data, loading, error, retryCount
  currentPage,        \* MovieList: currentPage
  listRequests,       \* getMovies requests awaiting their responses
  \* start-full-system.sh
  scriptStep,         \* the next step of the script, or how it ended
  running,            \* the services that are up
  \* AuthProvider and the API client's token store
  authUser,           \* user (NoUser for null)
  authToken,          \* token (NoValue for null)
  authLoading,        \* isLoading
  storedToken,        \* apiClient: the stored auth token
  authInit,           \* initializeAuth: "validating" or "done"
  initToken,          \* initializeAuth: its local storedToken
  authCalls,          \* login and register requests awaiting their responses
  \* AdminPage
  adminPage           \* mounted, isAuthorized, and whether router.push('/') was called

dashVars == <<dashLoading, dashError, activeTab, analyticsInFlight>>
panelVars == <<uploadTasks, moviesData, now, lastSelect>>
uploadVars == <<uploadMovie, uploadPhase, attached>>
pollVars == <<pollTimer, pollResp>>
pageVars == <<pageMovie, pageLoading, pageError, pageRetryCount, frames, framesFetch, framesOutcome, framesThrown>>

listVars == <<listState, currentPage, listRequests>>
scriptVars == <<scriptStep, running>>
authVars == <<authUser, authToken, authLoading, storedToken, authInit, initToken, authCalls, adminPage>>
siteVars == <<selection, listVars, scriptVars, authVars>>

vars == <<dashVars, panelVars, uploadVars, pollVars, jobs, pageVars, siteVars>>

\* ------------------------------------------------------- processing jobs
nonJobVars == <<dashVars, panelVars, uploadVars, pollVars, pageVars, siteVars>>

ActiveStates == {"pending", "queued", "processing"}
TerminalStates == {"completed", "failed", "cancelled"}

NoJob == [state |-> "none", retry |-> 0, asset |-> 0, errs |-> 0, error |-> NoValue]

\* Ingest Handler: a new job in state pending; an active job of the same
\* asset is superseded and cancelled.
SubmitJob(js, j, asset) ==
  [i \in DOMAIN js |->
     IF i = j THEN [state |-> "pending", retry |-> 0, asset |-> asset, errs |-> 0, error |-> NoValue]
     ELSE IF js[i].asset = asset /\ js[i].state \in ActiveStates
          THEN [js[i] EXCEPT !.state = "cancelled"]
          ELSE js[i]]

\* pending -> queued on successful enqueue
Enqueue(j) ==
  /\ jobs[j].state = "pending"
  /\ jobs' = [jobs EXCEPT ![j].state = "queued"]
  /\ UNCHANGED nonJobVars

\* queued -> processing when a worker claims the job
Claim(j) ==
  /\ jobs[j].state = "queued"
  /\ jobs' = [jobs EXCEPT ![j].state = "processing"]
  /\ UNCHANGED nonJobVars

\* processing -> completed
Complete(j) ==
  /\ jobs[j].state = "processing"
  /\ jobs' = [jobs EXCEPT ![j].state = "completed"]
  /\ UNCHANGED nonJobVars

\* processing -> failed on a non-recoverable encode error
FatalError(j) ==
  /\ jobs[j].state = "processing"
  /\ jobs' = [jobs EXCEPT ![j].state = "failed", ![j].error = "EncodeError"]
  /\ UNCHANGED nonJobVars

\* any non-terminal state -> cancelled on explicit cancellation
Cancel(j) ==
  /\ jobs[j].state \in ActiveStates
  /\ jobs' = [jobs EXCEPT ![j].state = "cancelled"]
  /\ UNCHANGED nonJobVars

\* worker crash or timeout: requeued at most RetryLimit times, then failed
RequeueOrFailMut(job) ==
  [job EXCEPT !.state = "queued", !.retry = IF @ < RetryLimit THEN @ + 1 ELSE @,
              !.errs = @ + 1]

RequeueOrFail(job) ==
  IF job.retry < RetryLimit
  THEN [job EXCEPT !.state = "queued", !.retry = @ + 1, !.errs = @ + 1]
  ELSE [job EXCEPT !.state = "failed", !.error = "RetriesExhausted", !.errs = @ + 1]

TransientError(j) ==
  /\ jobs[j].state = "processing"
  /\ jobs' = [jobs EXCEPT ![j] = RequeueOrFail(jobs[j])]
  /\ UNCHANGED nonJobVars

\* --------------------------------------------------------- AdminDashboard
\* VideoUploadPanel is rendered only by the last branch of the render
PanelMounted(l, e, t) == ~l /\ ~e /\ t = "videos"

Mounted == PanelMounted(dashLoading, dashError, activeTab)

InitialMoviesData == [loading |-> FALSE, listed |-> FALSE]

\* Result of a dashboard re-render with loading l, error e and tab t on the
\* panel: tasks and movies are the panel state if it stays mounted.  A
\* panel that is mounted runs its effect, fetchMovies (loading: true).
Render(l, e, t, tasks, movies) ==
  IF Mounted
  THEN IF PanelMounted(l, e, t)
       THEN /\ uploadTasks' = tasks
            /\ moviesData' = movies
            /\ attached' = attached
       ELSE /\ uploadTasks' = << >>
            /\ moviesData' = InitialMoviesData
            /\ attached' = [k \in DOMAIN attached |-> FALSE]
  ELSE /\ uploadTasks' = << >>
       /\ moviesData' = IF PanelMounted(l, e, t)
                         THEN [loading |-> TRUE, listed |-> FALSE]
                         ELSE InitialMoviesData
       /\ attached' = attached

\* fetchAnalyticsData resolves: ok stores the analytics, otherwise setError;
\* finally setLoading(false)
AnalyticsResponse(ok) ==
  /\ analyticsInFlight > 0
  /\ analyticsInFlight' = analyticsInFlight - 1
  /\ dashLoading' = FALSE
  /\ dashError' = (dashError \/ ~ok)
  /\ Render(FALSE, dashError \/ ~ok, activeTab, uploadTasks, moviesData)
  /\ UNCHANGED <<activeTab, now, lastSelect, uploadMovie, uploadPhase, pollVars, jobs, pageVars, siteVars>>

\* setActiveTab(tab.id); the tab bar is rendered only past loading and error
SetActiveTab(t) ==
  /\ ~dashLoading /\ ~dashError
  /\ t # activeTab
  /\ activeTab' = t
  /\ Render(dashLoading, dashError, t, uploadTasks, moviesData)
  /\ UNCHANGED <<dashLoading, dashError, analyticsInFlight, now, lastSelect,
                 uploadMovie, uploadPhase, pollVars, jobs, pageVars, siteVars>>

\* ------------------------------------------------------- VideoUploadPanel
\* a fetchMovies response: the first one to arrive ends loading
MoviesResponse(ok) ==
  /\ Mounted
  /\ moviesData.loading
  /\ moviesData' = [loading |-> FALSE, listed |-> (IF ok THEN TRUE ELSE moviesData.listed)]
  /\ UNCHANGED <<dashVars, uploadTasks, now, lastSelect, uploadVars, pollVars, jobs, pageVars, siteVars>>

\* prev.map(task => task.id === taskId ? updated : task), where updated[i]
\* is the replacement computed from tasks[i]
MapTask(tasks, id, updated) ==
  [i \in 1..Len(tasks) |-> IF tasks[i].id = id THEN updated[i] ELSE tasks[i]]

TaskId(k) == <<uploadMovie[k], k>>

\* setUploadTasks from the closure of upload k; a no-op once the panel
\* instance that created the closure is unmounted
SetTasks(k, updated) ==
  IF attached[k] THEN MapTask(uploadTasks, TaskId(k), updated) ELSE uploadTasks

TaskIndexes == 1..Len(uploadTasks)

\* file.type.startsWith('video/')
IsVideo(file) == StartsWith(file.type, VideoPrefix)

\* uploadVideo up to its first await: the task is appended, the POST is sent
uploadVideo(movie, file) ==
  LET k == now + 1
      newTask == [id |-> <<movie, k>>, movieId |-> movie, file |-> file,
                  status |-> "uploading", progress |-> 0, error |-> NoValue]
  IN /\ now' = k
     /\ uploadTasks' = Append(uploadTasks, newTask)
     /\ uploadMovie' = [uploadMovie EXCEPT ![k] = movie]
     /\ uploadPhase' = [uploadPhase EXCEPT ![k] = "sent"]
     /\ attached' = [attached EXCEPT ![k] = TRUE]

Rejected == UNCHANGED <<uploadTasks, now, uploadVars>>

\* onChange of a movie row's file input; rows exist once movies are listed
handleFileSelect(files, movie) ==
  /\ Mounted /\ ~moviesData.loading /\ moviesData.listed
  /\ lastSelect' = files
  /\ IF files.isNull \/ Len(files.items) = 0 THEN Rejected
     ELSE IF ~IsVideo(files.items[1]) THEN Rejected
     ELSE IF SizeGreater(files.items[1].size, maxSize) THEN Rejected
     ELSE uploadVideo(movie, files.items[1])
  /\ UNCHANGED <<dashVars, moviesData, pollVars, jobs, pageVars, siteVars>>

\* removeTask(task.id) from the X button of a listed task
removeTask(id) ==
  /\ Mounted
  /\ \E i \in 1..Len(uploadTasks) : uploadTasks[i].id = id
  /\ uploadTasks' = SelectSeq(uploadTasks, LAMBDA task : task.id # id)
  /\ UNCHANGED <<dashVars, moviesData, now, lastSelect, uploadVars, pollVars, jobs, pageVars, siteVars>>

\* ---------------------------------------------------- upload-video request
\* The ingest handler creates the job in state pending and enqueues it
Enqueued(js, j) == [js EXCEPT ![j].state = "queued"]

\* The server handles POST /api/admin/movies/{id}/upload-video: it accepts
\* the upload and creates job k (task_id = k), accepts it without returning
\* a task_id, or the request fails (non-OK response or network error).
ServerUpload(k, outcome) ==
  /\ uploadPhase[k] = "sent"
  /\ uploadPhase' = [uploadPhase EXCEPT ![k] = outcome]
  /\ jobs' = IF outcome = "respOk"
              THEN Enqueued(SubmitJob(jobs, k, uploadMovie[k]), k)
              ELSE jobs
  /\ UNCHANGED <<dashVars, panelVars, uploadMovie, attached, pollVars, pageVars, siteVars>>

UploadOutcomes == {"respOk", "respOkNoTask", "respError"}

Processing100(task) == [task EXCEPT !.status = "processing", !.progress = 100]

UploadFailed(task) == [task EXCEPT !.status = "failed", !.error = "UploadFailed"]

\* uploadVideo after its awaits: response.ok marks the task processing at
\* 100 and starts polling when a task_id came back; the catch block marks
\* the task failed
UploadResponse(k) ==
  /\ uploadPhase[k] \in UploadOutcomes
  /\ uploadPhase' = [uploadPhase EXCEPT ![k] = "done"]
  /\ uploadTasks' = IF uploadPhase[k] = "respError"
                    THEN SetTasks(k, [i \in TaskIndexes |-> UploadFailed(uploadTasks[i])])
                    ELSE SetTasks(k, [i \in TaskIndexes |-> Processing100(uploadTasks[i])])
  /\ pollTimer' = IF uploadPhase[k] = "respOk"
                  THEN [pollTimer EXCEPT ![k] = "on"]
                  ELSE pollTimer
  /\ UNCHANGED <<dashVars, moviesData, now, lastSelect, uploadMovie, attached,
                 pollResp, jobs, pageVars, siteVars>>

\* ------------------------------------------------------------ status poll
\* numeric progress values the status endpoint may return; 0 also stands
\* for an absent value, which status.progress || 0 maps to 0
ProgressValues == {40, 150}

\* get_status returns {state, percentage, error?}: no message field
Messages == {NoValue}

ErrorResponse ==
  [kind |-> "error", status |-> NoValue, progress |-> 0, error |-> NoValue, message |-> NoValue]

StatusBody(job, p, m) ==
  [kind |-> "ok", status |-> job.state,
   progress |-> IF job.state = "processing" THEN p ELSE 0,
   error |-> IF job.state = "failed" THEN job.error ELSE NoValue,
   message |-> IF job.state = "processing" THEN m ELSE NoValue]

\* get_status(job_id) -> {state, percentage, error?}
StatusResponses(job) ==
  {StatusBody(job, p, m) : p \in ProgressValues, m \in Messages} \cup {ErrorResponse}

\* the setInterval callback up to its await: a status request, answered
\* with the job's state at that time; the response is then in flight and
\* responses of one upload are delivered in any order
PollTickMut(k) ==
  /\ pollTimer[k] # "none"
  /\ \E r \in StatusResponses(jobs[k]) :
       pollResp' = [pollResp EXCEPT ![k] = @ (+) SetToBag({r})]
  /\ UNCHANGED <<dashVars, panelVars, uploadVars, pollTimer, jobs, pageVars, siteVars>>

PollTick(k) ==
  /\ pollTimer[k] = "on"
  /\ \E r \in StatusResponses(jobs[k]) :
       pollResp' = [pollResp EXCEPT ![k] = @ (+) SetToBag({r})]
  /\ UNCHANGED <<dashVars, panelVars, uploadVars, pollTimer, jobs, pageVars, siteVars>>

\* setTimeout(() => clearInterval(pollInterval), 30 * 60 * 1000)
PollTimeout(k) ==
  /\ pollTimer[k] = "on"
  /\ pollTimer' = [pollTimer EXCEPT ![k] = "cleared"]
  /\ UNCHANGED <<dashVars, panelVars, uploadVars, pollResp, jobs, pageVars, siteVars>>

\* status.error || 'Processing failed'
OrDefault(v, d) == IF v = NoValue THEN d ELSE v

Completed(task) == [task EXCEPT !.status = "completed"]

\* the task update of one status response
ApplyStatusMut(task, r) ==
  IF r.status = "failed"
  THEN [task EXCEPT !.status = "failed", !.error = OrDefault(r.error, "ProcessingFailed")]
  ELSE IF r.status = "processing"
  THEN [task EXCEPT !.status = "processing", !.progress = r.progress,
                    !.error = OrDefault(r.message, "ProcessingMessage")]
  ELSE task

ApplyStatus(task, r) ==
  IF r.status = "failed"
  THEN [task EXCEPT !.status = "failed", !.error = OrDefault(r.error, "ProcessingFailed")]
  ELSE IF r.status = "processing"
  THEN [task EXCEPT !.progress = r.progress,
                    !.error = OrDefault(r.message, "ProcessingMessage")]
  ELSE task

\* the setInterval callback after its awaits, for response r of upload k
PollResponse(k, r) ==
  /\ BagIn(r, pollResp[k])
  /\ pollResp' = [pollResp EXCEPT ![k] = @ (-) SetToBag({r})]
  /\ IF r.kind = "ok" /\ r.status = "completed"
     THEN \* setUploadTasks, clearInterval, onMoviesUpdate(), fetchMovies()
          /\ pollTimer' = [pollTimer EXCEPT ![k] = "cleared"]
          /\ dashLoading' = TRUE
          /\ analyticsInFlight' = analyticsInFlight + 1
          /\ Render(TRUE, dashError, activeTab,
                    SetTasks(k, [i \in TaskIndexes |-> Completed(uploadTasks[i])]),
                    IF attached[k] THEN [moviesData EXCEPT !.loading = TRUE] ELSE moviesData)
          /\ UNCHANGED <<dashError, activeTab>>
     ELSE /\ pollTimer' = IF r.kind = "error" \/ r.status = "failed"
                          THEN [pollTimer EXCEPT ![k] = "cleared"]
                          ELSE pollTimer
          /\ uploadTasks' = IF r.kind = "error" THEN uploadTasks
                            ELSE SetTasks(k, [i \in TaskIndexes |-> ApplyStatus(uploadTasks[i], r)])
          /\ UNCHANGED <<dashVars, moviesData, attached>>
  /\ UNCHANGED <<now, lastSelect, uploadMovie, uploadPhase, jobs, pageVars, siteVars>>

\* ------------------------------------------------------------- movie page
\* useMovie: maxRetries = 3
maxRetries == 3

\* count passed to selectEvenlyDistributedFrames by fetchThumbnails
FrameCount == 6

NoMovie == [video_file_id |-> NoValue, processing_status |-> NoValue,
            hls_manifest_url |-> NoValue, duration_seconds |-> 0]

\* movies the API may return; duration_seconds 0 also stands for absent
MovieInputs ==
  [video_file_id : {NoValue, "", "vf1"},
   processing_status : {NoValue, "pending", "queued", "processing",
                        "completed", "failed", "cancelled"},
   hls_manifest_url : {NoValue, "", "/hls/master.m3u8"},
   duration_seconds : {0, 120}]

\* JS truthiness of an optional string
Truthy(v) == v # NoValue /\ v # ""

\* MovieDetail: which top-level branch is rendered
DetailView(loading, error) ==
  IF loading THEN "skeleton" ELSE IF error THEN "error" ELSE "detail"

Placeholders == {"processingPlaceholder", "failedPlaceholder", "unavailablePlaceholder"}

\* MovieDetail: the video player section of the detail view
VideoSectionMut(movie) ==
  IF ~Truthy(movie.video_file_id) THEN "none"
  ELSE IF movie.processing_status = "completed" THEN "player"
  ELSE IF movie.processing_status \in {"processing", "queued"} THEN "processingPlaceholder"
  ELSE IF movie.processing_status = "failed" THEN "failedPlaceholder"
  ELSE "unavailablePlaceholder"

VideoSection(movie) ==
  IF ~Truthy(movie.video_file_id) THEN "none"
  ELSE IF movie.processing_status = "completed" /\ Truthy(movie.hls_manifest_url) THEN "player"
  ELSE IF movie.processing_status \in {"processing", "queued"} THEN "processingPlaceholder"
  ELSE IF movie.processing_status = "failed" THEN "failedPlaceholder"
  ELSE "unavailablePlaceholder"

\* MovieDetail: the condition under which MovieFrames is rendered
FramesSection(movie) ==
  /\ Truthy(movie.video_file_id)
  /\ movie.processing_status = "completed"
  /\ movie.duration_seconds # 0

PageVideo ==
  IF DetailView(pageLoading, pageError) = "detail" THEN VideoSection(pageMovie) ELSE "none"

\* MovieFrames ----------------------------------------------------------
Thumb(t, u) == [timestamp |-> t, url |-> u]

\* allThumbnails.filter(t => t.timestamp > 0)
FilterPositive(all) == SelectSeq(all, LAMBDA t : t.timestamp > 0)

Min(a, b) == IF a < b THEN a ELSE b

selectEvenlyDistributedFramesMut(allThumbnails, count) ==
  LET filteredThumbnails == allThumbnails
      step == Len(filteredThumbnails) \div count
  IN IF Len(allThumbnails) = 0 THEN << >>
     ELSE IF Len(filteredThumbnails) = 0 THEN << >>
     ELSE IF Len(filteredThumbnails) <= count THEN filteredThumbnails
     ELSE [i \in 1..count |->
             filteredThumbnails[Min((i - 1) * step, Len(filteredThumbnails) - 1) + 1]]

selectEvenlyDistributedFrames(allThumbnails, count) ==
  LET filteredThumbnails == FilterPositive(allThumbnails)
      step == Len(filteredThumbnails) \div count
  IN IF Len(allThumbnails) = 0 THEN << >>
     ELSE IF Len(filteredThumbnails) = 0 THEN << >>
     ELSE IF Len(filteredThumbnails) <= count THEN filteredThumbnails
     ELSE [i \in 1..count |->
             filteredThumbnails[Min((i - 1) * step, Len(filteredThumbnails) - 1) + 1]]

FramesUnmounted == [mounted |-> FALSE, loading |-> FALSE, error |-> FALSE,
                    thumbnails |-> << >>, selectedFrames |-> << >>]

\* useState initial values, then the effect: fetchThumbnails, setLoading(true)
FramesMounted == [mounted |-> TRUE, loading |-> TRUE, error |-> FALSE,
                  thumbnails |-> << >>, selectedFrames |-> << >>]

NoOutcome == [kind |-> "none", present |-> FALSE, thumbnails |-> << >>]

ThumbLists ==
  { << >>, <<Thumb(0, 1)>>, <<Thumb(0, 1), Thumb(10, 2)>>,
    [i \in 1..(FrameCount + 2) |-> Thumb(10 * (i - 1), i)] }

\* what the thumbnails request may come back with: a rejected fetch, a
\* non-OK response, or a body with or without a thumbnails list
FrameOutcomes ==
  {[kind |-> k, present |-> FALSE, thumbnails |-> << >>] : k \in {"networkError", "notOk", "ok"}}
    \cup {[kind |-> "ok", present |-> TRUE, thumbnails |-> l] : l \in ThumbLists}

\* fetchThumbnails after its awaits: try body, catch, finally
fetchThumbnailsMut(fr, out) ==
  IF out.kind # "ok"
  THEN [fr EXCEPT !.error = TRUE]
  ELSE [fr EXCEPT !.thumbnails = IF out.present THEN out.thumbnails ELSE << >>,
                  !.selectedFrames =
                     IF out.present /\ Len(out.thumbnails) > 0
                     THEN selectEvenlyDistributedFrames(out.thumbnails, FrameCount)
                     ELSE @,
                  !.loading = FALSE]

fetchThumbnails(fr, out) ==
  IF out.kind # "ok"
  THEN [fr EXCEPT !.error = TRUE, !.loading = FALSE]
  ELSE [fr EXCEPT !.thumbnails = IF out.present THEN out.thumbnails ELSE << >>,
                  !.selectedFrames =
                     IF out.present /\ Len(out.thumbnails) > 0
                     THEN selectEvenlyDistributedFrames(out.thumbnails, FrameCount)
                     ELSE @,
                  !.loading = FALSE]

\* MovieFrames: what is rendered
FramesRender ==
  IF ~frames.mounted THEN "unmounted"
  ELSE IF frames.loading THEN "spinner"
  ELSE IF frames.error \/ Len(frames.selectedFrames) = 0 THEN "nothing"
  ELSE "frames"

nonPageVars == <<dashVars, panelVars, uploadVars, pollVars, jobs, siteVars>>

\* useMovie: getMovieById resolved; MovieDetail renders the movie, and
\* MovieFrames with it when its condition holds
PageMovieLoaded(m) ==
  /\ pageLoading
  /\ pageMovie' = m /\ pageLoading' = FALSE /\ pageError' = FALSE
  /\ pageRetryCount' = 0
  /\ frames' = IF FramesSection(m) THEN FramesMounted ELSE FramesUnmounted
  /\ framesFetch' = IF FramesSection(m) THEN "sent" ELSE "none"
  /\ UNCHANGED <<framesOutcome, framesThrown, nonPageVars>>

\* useMovie: getMovieById rejected
PageMovieFailed ==
  /\ pageLoading
  /\ pageMovie' = NoMovie /\ pageLoading' = FALSE /\ pageError' = TRUE
  /\ pageRetryCount' = pageRetryCount + 1
  /\ UNCHANGED <<frames, framesFetch, framesOutcome, framesThrown, nonPageVars>>

\* refetch from the retry button of the error view, offered while canRetry
PageRefetch ==
  /\ ~pageLoading /\ pageError
  /\ pageRetryCount < maxRetries
  /\ pageLoading' = TRUE /\ pageError' = FALSE
  /\ UNCHANGED <<pageMovie, pageRetryCount, frames, framesFetch, framesOutcome,
                 framesThrown, nonPageVars>>

\* the thumbnails request of the mounted MovieFrames comes back
FramesResponse(out) ==
  /\ framesFetch = "sent"
  /\ framesFetch' = "done"
  /\ framesOutcome' = out
  /\ frames' = fetchThumbnails(frames, out)
  /\ UNCHANGED <<pageMovie, pageLoading, pageError, pageRetryCount, framesThrown, nonPageVars>>

PageIdle ==
  /\ pageMovie = NoMovie /\ pageLoading = FALSE /\ pageError = FALSE
  /\ pageRetryCount = 0
  /\ frames = FramesUnmounted /\ framesFetch = "none"
  /\ framesOutcome = NoOutcome /\ framesThrown = FALSE

\* ------------------------------------------- frame selection on its own
nonSelectionVars == <<dashVars, panelVars, uploadVars, pollVars, jobs, pageVars, listVars, scriptVars, authVars>>

Timestamps == {0, 1, 2}

\* lists of up to MaxThumbs thumbnails; the url of each names its position
ThumbInputs ==
  UNION {{[i \in 1..n |-> Thumb(ts[i], i)] : ts \in [1..n -> Timestamps]} : n \in 0..MaxThumbs}

NoSelection == [allThumbnails |-> << >>, count |-> 0, frames |-> << >>, called |-> FALSE]

\* selectEvenlyDistributedFrames(allThumbnails, count) returns
CallSelect ==
  /\ ~selection.called
  /\ selection' = [selection EXCEPT
                     !.frames = selectEvenlyDistributedFrames(selection.allThumbnails,
                                                              selection.count),
                     !.called = TRUE]
  /\ UNCHANGED nonSelectionVars

\* ------------------------------------------------ MovieList and useMovies
nonListVars == <<dashVars, panelVars, uploadVars, pollVars, jobs, pageVars, selection, scriptVars, authVars>>

listMaxRetries == 3
SkeletonCount == 20

\* MovieSummary values; rating in hundredths
Catalogue ==
  { [id |-> 1, title |-> "Alien", year |-> 1979, genre |-> "Horror", rating |-> 825],
    [id |-> 2, title |-> "Heat", year |-> 1995, genre |-> "Drama", rating |-> 996],
    [id |-> 3, title |-> "Alien", year |-> 1900, genre |-> "Sci-Fi", rating |-> 0],
    [id |-> 4, title |-> "Ran", year |-> 1985, genre |-> "Action", rating |-> 744] }

MovieLists == UNION {[1..n -> Catalogue] : n \in 0..MaxListLen}

NoData == [present |-> FALSE, movies |-> << >>, total_pages |-> 0]

\* PaginatedMoviesResponse bodies
ListResponses ==
  {[present |-> TRUE, movies |-> l, total_pages |-> t] : l \in MovieLists, t \in 1..MaxPages}

FetchError == "Failed to fetch movies"

\* useState initial value of useMovies
InitialListState == [data |-> NoData, loading |-> FALSE, error |-> NoValue, retryCount |-> 0]

\* fetchMovies up to its await: setState(prev => ({...prev, loading: true, error: null}))
fetchMoviesStart(st) == [st EXCEPT !.loading = TRUE, !.error = NoValue]

\* fetchMovies after getMovies resolved
fetchMoviesResolved(st, data) ==
  [data |-> data, loading |-> FALSE, error |-> NoValue, retryCount |-> 0]

\* fetchMovies after getMovies rejected
fetchMoviesRejectedMut(st) ==
  [data |-> NoData, loading |-> st.loading, error |-> FetchError, retryCount |-> st.retryCount + 1]

fetchMoviesRejected(st) ==
  [data |-> NoData, loading |-> FALSE, error |-> FetchError, retryCount |-> st.retryCount + 1]

\* Number.prototype.toFixed(1) of a rating given in hundredths: the nearest
\* tenth, the larger one on a tie
ToFixed1(r) == [units |-> ((r + 5) \div 10) \div 10, tenth |-> ((r + 5) \div 10) % 10]

\* MovieCard: the link and the texts it shows
MovieCardMut(movie) ==
  [href |-> <<"/movies/", movie.id>>, title |-> movie.title, year |-> movie.year,
   genre |-> movie.genre, rating |-> [units |-> movie.rating \div 100, tenth |-> 0]]

MovieCard(movie) ==
  [href |-> <<"/movies/", movie.id>>, title |-> movie.title, year |-> movie.year,
   genre |-> movie.genre, rating |-> ToFixed1(movie.rating)]

\* MovieList: what is rendered for the hook's state
MovieListRenderMut(st) ==
  IF st.error # NoValue
  THEN [errorView |-> TRUE, retry |-> st.retryCount < listMaxRetries,
        skeletons |-> 0, cards |-> << >>, spinner |-> FALSE, pagination |-> FALSE]
  ELSE [errorView |-> FALSE, retry |-> FALSE,
        skeletons |-> IF st.loading /\ ~st.data.present THEN SkeletonCount ELSE 0,
        cards |-> IF st.loading /\ ~st.data.present THEN << >>
                  ELSE [i \in 1..Len(st.data.movies) |-> MovieCard(st.data.movies[i])],
        spinner |-> st.loading,
        pagination |-> st.data.present /\ st.data.total_pages > 1]

MovieListRender(st) ==
  IF st.error # NoValue
  THEN [errorView |-> TRUE, retry |-> st.retryCount < listMaxRetries,
        skeletons |-> 0, cards |-> << >>, spinner |-> FALSE, pagination |-> FALSE]
  ELSE [errorView |-> FALSE, retry |-> FALSE,
        skeletons |-> IF st.loading /\ ~st.data.present THEN SkeletonCount ELSE 0,
        cards |-> IF st.loading /\ ~st.data.present THEN << >>
                  ELSE [i \in 1..Len(st.data.movies) |-> MovieCard(st.data.movies[i])],
        spinner |-> st.loading /\ st.data.present,
        pagination |-> st.data.present /\ st.data.total_pages > 1]

\* the page buttons that are rendered and enabled: Previous, the numbered
\* buttons (total_pages is at most 5 here) and Next
EnabledPages ==
  LET view == MovieListRender(listState)
      total == listState.data.total_pages
  IN IF ~view.pagination \/ listState.loading THEN {}
     ELSE (IF currentPage = 1 THEN {} ELSE {currentPage - 1})
            \cup (1..total)
            \cup (IF currentPage = total THEN {} ELSE {currentPage + 1})

\* handlePageChange(page), then the effect of useMovies for the new page
handlePageChange(page) ==
  /\ page \in EnabledPages
  /\ page # currentPage
  /\ page \in 1..(MaxPages + 1)
  /\ currentPage' = page
  /\ listState' = fetchMoviesStart(listState)
  /\ listRequests' = listRequests + 1
  /\ UNCHANGED nonListVars

\* handleRetry from the error view, offered while canRetry
handleRetry ==
  /\ MovieListRender(listState).errorView
  /\ MovieListRender(listState).retry
  /\ listState' = fetchMoviesStart(listState)
  /\ listRequests' = listRequests + 1
  /\ UNCHANGED <<currentPage, nonListVars>>

\* a getMovies request resolves with a page of movies
MoviesResolved(data) ==
  /\ listRequests > 0
  /\ listRequests' = listRequests - 1
  /\ listState' = fetchMoviesResolved(listState, data)
  /\ UNCHANGED <<currentPage, nonListVars>>

\* a getMovies request rejects
MoviesRejected ==
  /\ listRequests > 0
  /\ listRequests' = listRequests - 1
  /\ listState' = fetchMoviesRejected(listState)
  /\ UNCHANGED <<currentPage, nonListVars>>

ListIdle ==
  /\ listState = InitialListState /\ currentPage = 1 /\ listRequests = 0

\* ------------------------------------------------- start-full-system.sh
nonScriptVars == <<dashVars, panelVars, uploadVars, pollVars, jobs, pageVars, selection, listVars, authVars>>

DockerServices == {"postgres", "redis", "minio", "prometheus", "grafana"}
AllServices == DockerServices \cup {"celery", "backend", "frontend"}

\* the dependency checks: docker, docker-compose, the backend venv and
\* frontend/package.json; the script exits with 1 when one is missing
CheckDependencies(docker, compose, venv, package) ==
  /\ scriptStep = "checkDependencies"
  /\ scriptStep' = IF docker /\ compose /\ venv /\ package THEN "killProcesses" ELSE "exit1"
  /\ UNCHANGED <<running, nonScriptVars>>

\* ./kill-processes.sh stops the processes of an earlier run
KillProcesses ==
  /\ scriptStep = "killProcesses"
  /\ scriptStep' = "composeUp"
  /\ running' = running \ {"celery", "backend", "frontend"}
  /\ UNCHANGED nonScriptVars

\* docker-compose up -d minio redis, then sleep 5: each named service may
\* or may not come up; the compose file decides which others come with them
ComposeUp(up) ==
  /\ scriptStep = "composeUp"
  /\ scriptStep' = "checkDocker"
  /\ running' = (running \ DockerServices) \cup up
  /\ UNCHANGED nonScriptVars

\* docker ps | grep cinema_minio, cinema_redis
CheckDocker ==
  /\ scriptStep = "checkDocker"
  /\ scriptStep' = IF "minio" \notin running THEN "exit1"
                   ELSE IF "redis" \notin running THEN "exit1"
                   ELSE "startCelery"
  /\ UNCHANGED <<running, nonScriptVars>>

\* a start command whose result is not looked at: celery --detach,
\* uvicorn &, npm run dev &
StartProcess(step, service, next, ok) ==
  /\ scriptStep = step
  /\ scriptStep' = next
  /\ running' = IF ok THEN running \cup {service} ELSE running
  /\ UNCHANGED nonScriptVars

StartCelery(ok) == StartProcess("startCelery", "celery", "startBackend", ok)
StartBackend(ok) == StartProcess("startBackend", "backend", "startFrontend", ok)
StartFrontend(ok) == StartProcess("startFrontend", "frontend", "report", ok)

\* the final report, then wait
Report ==
  /\ scriptStep = "report"
  /\ scriptStep' = "wait"
  /\ UNCHANGED <<running, nonScriptVars>>

ScriptIdle == scriptStep = "checkDependencies" /\ running = {}

\* ------------------------------------------------ AuthProvider, AdminPage
nonAuthVars == <<dashVars, panelVars, uploadVars, pollVars, jobs, pageVars, selection, listVars, scriptVars>>

NoUser == [username |-> NoValue, is_admin |-> FALSE]
AdminUser == [username |-> "admin", is_admin |-> TRUE]
PlainUser == [username |-> "user", is_admin |-> FALSE]
Users == {AdminUser, PlainUser}

\* access tokens: one per user, and one the server no longer accepts
TokenOf(u) == IF u = AdminUser THEN "tokenAdmin" ELSE "tokenUser"
ExpiredToken == "tokenExpired"
StoredTokens == {NoValue, ExpiredToken} \cup {TokenOf(u) : u \in Users}

AdminPageUnmounted == [mounted |-> FALSE, isAuthorized |-> FALSE, redirect |-> FALSE]

\* AdminPage: the effect on [user, isLoading, router]
AdminPageEffect(page, user, isLoading) ==
  IF ~page.mounted \/ isLoading THEN page
  ELSE IF user = NoUser THEN [page EXCEPT !.redirect = TRUE]
  ELSE IF ~user.is_admin THEN [page EXCEPT !.redirect = TRUE]
  ELSE [page EXCEPT !.isAuthorized = TRUE]

\* AdminPage: what is rendered
AdminPageView(page, isLoading) ==
  IF ~page.mounted THEN "none"
  ELSE IF isLoading THEN "spinner"
  ELSE IF ~page.isAuthorized THEN "denied"
  ELSE "dashboard"

\* the browser opens /admin: AdminPage mounts and its effect runs
OpenAdminPage ==
  /\ ~adminPage.mounted
  /\ adminPage' = AdminPageEffect([AdminPageUnmounted EXCEPT !.mounted = TRUE],
                                   authUser, authLoading)
  /\ UNCHANGED <<authUser, authToken, authLoading, storedToken, authInit, initToken,
                 authCalls, nonAuthVars>>

\* the navigation started by router.push('/') is done: AdminPage unmounts
NavigationDone ==
  /\ adminPage.mounted /\ adminPage.redirect
  /\ adminPage' = AdminPageUnmounted
  /\ UNCHANGED <<authUser, authToken, authLoading, storedToken, authInit, initToken,
                 authCalls, nonAuthVars>>

\* initializeAuth after getCurrentUser resolved with the owner of the
\* token the request was sent with
ValidationResolved ==
  /\ authInit = "validating"
  /\ \E u \in Users :
       /\ initToken = TokenOf(u)
       /\ authUser' = u
       /\ adminPage' = AdminPageEffect(adminPage, u, FALSE)
  /\ authToken' = initToken
  /\ authLoading' = FALSE
  /\ authInit' = "done"
  /\ UNCHANGED <<storedToken, initToken, authCalls, nonAuthVars>>

\* initializeAuth after getCurrentUser rejected (the token is not accepted,
\* or the request failed)
ValidationRejectedMut ==
  /\ authInit = "validating"
  /\ storedToken' = NoValue
  /\ authUser' = NoUser
  /\ authToken' = NoValue
  /\ authInit' = "done"
  /\ adminPage' = AdminPageEffect(adminPage, NoUser, authLoading)
  /\ UNCHANGED <<authLoading, initToken, authCalls, nonAuthVars>>

ValidationRejected ==
  /\ authInit = "validating"
  /\ storedToken' = NoValue
  /\ authUser' = NoUser
  /\ authToken' = NoValue
  /\ authLoading' = FALSE
  /\ authInit' = "done"
  /\ adminPage' = AdminPageEffect(adminPage, NoUser, FALSE)
  /\ UNCHANGED <<initToken, authCalls, nonAuthVars>>

\* login(credentials) or register(userData) up to the await
AuthCall ==
  /\ authCalls < MaxAuthCalls
  /\ authCalls' = authCalls + 1
  /\ UNCHANGED <<authUser, authToken, authLoading, storedToken, authInit, initToken,
                 adminPage, nonAuthVars>>

\* setUser, setToken, apiClient.setAuthToken with the AuthResponse
AuthSucceeded(u) ==
  /\ authCalls > 0
  /\ authCalls' = authCalls - 1
  /\ authUser' = u
  /\ authToken' = TokenOf(u)
  /\ storedToken' = TokenOf(u)
  /\ adminPage' = AdminPageEffect(adminPage, u, authLoading)
  /\ UNCHANGED <<authLoading, authInit, initToken, nonAuthVars>>

\* login after apiClient.login resolved
login(u) == AuthSucceeded(u)

\* register after apiClient.register resolved
register(u) == AuthSucceeded(u)

\* login or register rethrows the rejection to its caller
AuthRejected ==
  /\ authCalls > 0
  /\ authCalls' = authCalls - 1
  /\ UNCHANGED <<authUser, authToken, authLoading, storedToken, authInit, initToken,
                 adminPage, nonAuthVars>>

\* logout from UserProfile, which renders only for a user
logoutMut ==
  /\ authUser # NoUser
  /\ storedToken' = NoValue
  /\ authUser' = NoUser
  /\ adminPage' = AdminPageEffect(adminPage, NoUser, authLoading)
  /\ UNCHANGED <<authToken, authLoading, authInit, initToken, authCalls, nonAuthVars>>

logout ==
  /\ authUser # NoUser
  /\ storedToken' = NoValue
  /\ authUser' = NoUser
  /\ authToken' = NoValue
  /\ adminPage' = AdminPageEffect(adminPage, NoUser, authLoading)
  /\ UNCHANGED <<authLoading, authInit, initToken, authCalls, nonAuthVars>>

\* AuthProvider after its mount effect, for the token t found in the store
AuthMounted(t) ==
  /\ authUser = NoUser /\ authToken = NoValue
  /\ storedToken = t /\ initToken = t
  /\ authLoading = (t # NoValue)
  /\ authInit = IF t # NoValue THEN "validating" ELSE "done"
  /\ authCalls = 0
  /\ adminPage = AdminPageUnmounted

AuthIdle == AuthMounted(NoValue)

\* isAuthenticated: !!user
isAuthenticated == authUser # NoUser

SiteIdle ==
  /\ selection = NoSelection
  /\ ListIdle
  /\ ScriptIdle
  /\ AuthIdle

\* ---------------------------------------------------------- specification
PanelIdle ==
  /\ dashLoading = TRUE /\ dashError = FALSE /\ activeTab = "overview"
  /\ analyticsInFlight = 1
  /\ uploadTasks = << >> /\ moviesData = InitialMoviesData
  /\ now = 0 /\ lastSelect = NullFiles
  /\ uploadMovie = [k \in Uploads |-> 0]
  /\ uploadPhase = [k \in Uploads |-> "none"]
  /\ attached = [k \in Uploads |-> FALSE]
  /\ pollTimer = [k \in Uploads |-> "none"]
  /\ pollResp = [k \in Uploads |-> EmptyBag]

\* AdminDashboard just mounted on its first fetchAnalyticsData
Init ==
  /\ PanelIdle
  /\ jobs = [k \in Uploads |-> NoJob]
  /\ PageIdle
  /\ SiteIdle

\* status responses in flight, over all uploads
RECURSIVE InFlight(_)
InFlight(k) == IF k = 0 THEN 0 ELSE BagCardinality(pollResp[k]) + InFlight(k - 1)

\* the steps shared by the panel specifications, with at most n uploads;
\* the movies are interchangeable, so the first upload is for movie 1
PanelNext(n) ==
  \/ \E ok \in BOOLEAN : AnalyticsResponse(ok)
  \/ \E t \in {"overview", "videos"} : SetActiveTab(t)
  \/ \E ok \in BOOLEAN : MoviesResponse(ok)
  \/ \E files \in PanelFileLists, movie \in (IF now = 0 THEN {1} ELSE Movies) :
       now < n /\ handleFileSelect(files, movie)
  \/ \E k \in Uploads : removeTask(TaskId(k))
  \/ \E k \in Uploads, o \in UploadOutcomes : ServerUpload(k, o)
  \/ \E k \in Uploads : UploadResponse(k)
  \/ \E k \in Uploads : InFlight(MaxUploads + 1) < MaxInFlight /\ PollTick(k)
  \/ \E k \in Uploads : PollTimeout(k)
  \/ \E k \in Uploads : \E r \in BagToSet(pollResp[k]) : PollResponse(k, r)
  \/ \E k \in Uploads : Claim(k)
  \/ \E k \in Uploads : Complete(k)
  \/ \E k \in Uploads : FatalError(k)
  \/ \E k \in Uploads : Cancel(k)

Next == PanelNext(MaxUploads)

Spec == Init /\ [][Next]_vars

\* the worker pool on its own: jobs are submitted for assets and processed
Jobs == 1..MaxJobs

Submit(j, asset) ==
  /\ jobs[j].state = "none"
  /\ \A i \in 1..(j - 1) : jobs[i].state # "none"
  /\ jobs' = SubmitJob(jobs, j, asset)
  /\ UNCHANGED nonJobVars

InitWorker ==
  /\ PanelIdle
  /\ jobs = [j \in Jobs |-> NoJob]
  /\ PageIdle
  /\ SiteIdle

NextWorker ==
  \/ \E j \in Jobs, a \in Movies : Submit(j, a)
  \/ \E j \in Jobs : Enqueue(j)
  \/ \E j \in Jobs : Claim(j)
  \/ \E j \in Jobs : TransientError(j)
  \/ \E j \in Jobs : Complete(j)
  \/ \E j \in Jobs : FatalError(j)
  \/ \E j \in Jobs : Cancel(j)

SpecWorker == InitWorker /\ [][NextWorker]_vars

\* the movie page: MovieDetailPage has resolved its id and useMovie fetches
InitPage ==
  /\ PanelIdle
  /\ jobs = [k \in Uploads |-> NoJob]
  /\ pageMovie = NoMovie /\ pageLoading = TRUE /\ pageError = FALSE
  /\ pageRetryCount = 0
  /\ frames = FramesUnmounted /\ framesFetch = "none"
  /\ framesOutcome = NoOutcome /\ framesThrown = FALSE
  /\ SiteIdle

NextPage ==
  \/ \E m \in MovieInputs : PageMovieLoaded(m)
  \/ PageMovieFailed
  \/ PageRefetch
  \/ \E out \in FrameOutcomes : FramesResponse(out)

SpecPage == InitPage /\ [][NextPage]_vars

\* the panel with a re-upload
NextReupload == PanelNext(MaxUploads + 1)

SpecReupload == Init /\ [][NextReupload]_vars

\* handleFileSelect on all kinds of selections; no status polling
NextIngest ==
  \/ \E ok \in BOOLEAN : AnalyticsResponse(ok)
  \/ \E t \in {"overview", "videos"} : SetActiveTab(t)
  \/ \E ok \in BOOLEAN : MoviesResponse(ok)
  \/ \E files \in IngestFileLists, movie \in Movies :
       handleFileSelect(files, movie) /\ now' <= MaxUploads
  \/ \E k \in Uploads : removeTask(TaskId(k))
  \/ \E k \in Uploads, o \in UploadOutcomes : ServerUpload(k, o)
  \/ \E k \in Uploads : UploadResponse(k)

SpecIngest == Init /\ [][NextIngest]_vars

\* selectEvenlyDistributedFrames called on every list and count
InitFrames ==
  /\ PanelIdle
  /\ jobs = [k \in Uploads |-> NoJob]
  /\ PageIdle
  /\ selection \in {[NoSelection EXCEPT !.allThumbnails = l, !.count = c] :
                      l \in ThumbInputs, c \in 0..MaxCount}
  /\ ListIdle
  /\ ScriptIdle
  /\ AuthIdle

NextFrames == CallSelect

SpecFrames == InitFrames /\ [][NextFrames]_vars

\* MovieList just mounted: the effect of useMovies has called fetchMovies
InitList ==
  /\ PanelIdle
  /\ jobs = [k \in Uploads |-> NoJob]
  /\ PageIdle
  /\ selection = NoSelection
  /\ listState = fetchMoviesStart(InitialListState)
  /\ currentPage = 1
  /\ listRequests = 1
  /\ ScriptIdle
  /\ AuthIdle

NextList ==
  \/ \E page \in 1..(MaxPages + 1) : handlePageChange(page)
  \/ handleRetry
  \/ \E data \in ListResponses : MoviesResolved(data)
  \/ MoviesRejected

SpecList == InitList /\ [][NextList]_vars

\* start-full-system.sh run from its first line, with anything left
\* running from an earlier run
InitStartup ==
  /\ PanelIdle
  /\ jobs = [k \in Uploads |-> NoJob]
  /\ PageIdle
  /\ selection = NoSelection
  /\ ListIdle
  /\ scriptStep = "checkDependencies"
  /\ running \in SUBSET {"celery", "backend", "frontend"}
  /\ AuthIdle

NextStartup ==
  \/ \E docker \in BOOLEAN, compose \in BOOLEAN, venv \in BOOLEAN, package \in BOOLEAN :
       CheckDependencies(docker, compose, venv, package)
  \/ KillProcesses
  \/ \E up \in SUBSET DockerServices : ComposeUp(up)
  \/ CheckDocker
  \/ \E ok \in BOOLEAN : StartCelery(ok)
  \/ \E ok \in BOOLEAN : StartBackend(ok)
  \/ \E ok \in BOOLEAN : StartFrontend(ok)
  \/ Report

SpecStartup == InitStartup /\ [][NextStartup]_vars

\* the site just loaded: AuthProvider has mounted with any stored token
InitAuth ==
  /\ PanelIdle
  /\ jobs = [k \in Uploads |-> NoJob]
  /\ PageIdle
  /\ selection = NoSelection
  /\ ListIdle
  /\ ScriptIdle
  /\ \E t \in StoredTokens : AuthMounted(t)

NextAuth ==
  \/ OpenAdminPage
  \/ NavigationDone
  \/ ValidationResolved
  \/ ValidationRejected
  \/ AuthCall
  \/ \E u \in Users : login(u)
  \/ \E u \in Users : register(u)
  \/ AuthRejected
  \/ logout

SpecAuth == InitAuth /\ [][NextAuth]_vars

\* the same, where the getCurrentUser request of initializeAuth is
\* answered in the end and its continuation runs
SpecAuthLive ==
  InitAuth /\ [][NextAuth]_vars /\ WF_vars(ValidationResolved \/ ValidationRejected)

\* ------------------------------------------------------------------ claims
ActiveStatuses == {"uploading", "processing"}

\* C1: at any time the task list holds at most one task per movieId whose
\* status is uploading or processing.
C1_AtMostOneActivePerMovie ==
  \A i \in TaskIndexes : \A j \in TaskIndexes :
    (i # j /\ uploadTasks[i].movieId = uploadTasks[j].movieId)
      => ~(uploadTasks[i].status \in ActiveStatuses /\ uploadTasks[j].status \in ActiveStatuses)

\* C2: once a task's status is completed or failed, no step changes the
\* status of that task for as long as it is in the list.
C2_TerminalStatusImmutable ==
  [][\A i \in TaskIndexes :
       uploadTasks[i].status \in {"completed", "failed"}
         => \A j \in 1..Len(uploadTasks') :
              uploadTasks'[j].id = uploadTasks[i].id
                => uploadTasks'[j].status = uploadTasks[i].status]_vars

\* a processing response that was in flight has been applied to a task
\* that had already failed
C2_StaleResponseOnFailedTask ==
  \E i \in TaskIndexes :
    uploadTasks[i].status = "failed" /\ uploadTasks[i].error = "ProcessingMessage"

\* C3: the progress of a task never decreases from one state to the next.
C3_ProgressNeverDecreases ==
  [][\A i \in TaskIndexes : \A j \in 1..Len(uploadTasks') :
       uploadTasks'[j].id = uploadTasks[i].id
         => uploadTasks'[j].progress >= uploadTasks[i].progress]_vars

\* the claim's acceptance criterion: a first file whose declared type is a
\* video type and whose size is at most the maximum upload size
IsVideoType(t) == Len(t) > Len(VideoPrefix) - 1 /\ \A i \in 1..Len(VideoPrefix) : t[i] = VideoPrefix[i]

AtMostMaxSize(size) == size.hi < maxSize.hi \/ (size.hi = maxSize.hi /\ size.lo <= maxSize.lo)

ValidSelection(files) ==
  /\ ~files.isNull
  /\ Len(files.items) > 0
  /\ IsVideoType(files.items[1].type)
  /\ AtMostMaxSize(files.items[1].size)

\* C4: an upload is started only for a valid selection, and a selection
\* that is not valid leaves the task list, the upload requests and the
\* upload count unchanged.
C4_IngestValidation ==
  [][/\ now' # now
        => /\ ValidSelection(lastSelect')
           /\ Len(uploadTasks') = Len(uploadTasks) + 1
           /\ uploadTasks'[Len(uploadTasks')].file = lastSelect'.items[1]
     /\ (lastSelect' # lastSelect /\ ~ValidSelection(lastSelect'))
        => UNCHANGED <<uploadTasks, uploadPhase, now>>]_vars

\* an oversized video was selected after one upload had been accepted, and
\* there is still one upload
C4_OversizeRejected ==
  /\ lastSelect = FileList(<<[type |-> TypeMp4, size |-> [hi |-> maxSize.hi, lo |-> 1]]>>)
  /\ now = 1 /\ Len(uploadTasks) = 1
  /\ uploadPhase[2] = "none"

\* C5: when a status response reporting completed, failed or cancelled is
\* delivered, the poll timer of that upload is no longer running and its
\* task is no longer in status processing.
C5_TerminalReportEndsPolling ==
  [][\A k \in Uploads : \A r \in BagToSet(pollResp[k]) :
       (/\ r.kind = "ok" /\ r.status \in TerminalStates
        /\ pollResp'[k] = pollResp[k] (-) SetToBag({r}))
         => /\ pollTimer'[k] # "on"
            /\ \A j \in 1..Len(uploadTasks') :
                 uploadTasks'[j].id = TaskId(k) => uploadTasks'[j].status # "processing"]_vars

\* C6: every progress value held for a task is between 0 and 100.
C6_ProgressInRange ==
  \A i \in TaskIndexes : uploadTasks[i].progress \in 0..100

\* C7: a task carries error detail only if its status is failed.
C7_ErrorOnlyWhenFailed ==
  \A i \in TaskIndexes :
    uploadTasks[i].error # NoValue => uploadTasks[i].status = "failed"

\* C8 as stated: with the detail view rendered, the player is mounted only
\* for a completed movie with a manifest URL, and in every other state a
\* status placeholder is shown.
ManifestReady(movie) ==
  movie.processing_status = "completed" /\ movie.hls_manifest_url \notin {NoValue, ""}

C8_PlaceholderInEveryOtherState ==
  DetailView(pageLoading, pageError) = "detail"
    => /\ PageVideo = "player" => ManifestReady(pageMovie)
       /\ ~ManifestReady(pageMovie) => PageVideo \in Placeholders

\* C8 amended: the player is mounted exactly for a movie with a video file
\* that is completed and has a manifest URL; a movie with a video file in
\* any other state gets a placeholder; without a video file, or outside
\* the detail view, neither is rendered.
C8_PlayerOnlyWhenCompleted ==
  LET hasVideo == pageMovie.video_file_id \notin {NoValue, ""}
  IN IF DetailView(pageLoading, pageError) = "detail"
     THEN /\ PageVideo = "player" <=> (hasVideo /\ ManifestReady(pageMovie))
          /\ (hasVideo /\ ~ManifestReady(pageMovie)) => PageVideo \in Placeholders
          /\ ~hasVideo => PageVideo = "none"
     ELSE PageVideo = "none"

\* a completed movie with a video file but an empty manifest URL is shown
C8_CompletedWithoutManifest ==
  /\ DetailView(pageLoading, pageError) = "detail"
  /\ pageMovie.video_file_id = "vf1"
  /\ pageMovie.processing_status = "completed"
  /\ pageMovie.hls_manifest_url = ""
  /\ PageVideo = "unavailablePlaceholder"

\* C9: a job that has met more transient errors than the retry limit is
\* failed; it has met at most one error more than the limit, and a
\* submitted job always keeps a state.
C9_RetryBound ==
  \A j \in DOMAIN jobs :
    /\ jobs[j].errs <= RetryLimit + 1
    /\ jobs[j].errs > RetryLimit => jobs[j].state = "failed"
    /\ jobs[j].retry <= RetryLimit

C9_RetriesExhausted ==
  \E j \in DOMAIN jobs :
    jobs[j].errs = RetryLimit + 1 /\ jobs[j].retry = RetryLimit /\ jobs[j].state = "failed"

\* C10: once the thumbnails request has failed or returned no thumbnails,
\* MovieFrames is not loading, renders nothing, no exception has escaped,
\* and a completed movie with a manifest still has its player.
FailedOrEmpty(out) ==
  \/ out.kind \in {"networkError", "notOk"}
  \/ out.kind = "ok" /\ (~out.present \/ Len(out.thumbnails) = 0)

C10_ThumbnailFailureNonFatal ==
  (framesFetch = "done" /\ FailedOrEmpty(framesOutcome))
    => /\ ~frames.loading
       /\ FramesRender = "nothing"
       /\ ~framesThrown
       /\ DetailView(pageLoading, pageError) = "detail"
       /\ ManifestReady(pageMovie) => PageVideo = "player"

C10_FailedFetchWithPlayer ==
  /\ framesFetch = "done"
  /\ framesOutcome.kind = "networkError"
  /\ FramesRender = "nothing"
  /\ PageVideo = "player"

\* the positions of the input whose timestamp is positive
PositivePositions(all) == {i \in 1..Len(all) : all[i].timestamp > 0}

\* out is made of the thumbnails at strictly increasing positions of all
IsSubsequence(out, all) ==
  \E idx \in [1..Len(out) -> 1..Len(all)] :
    /\ \A i \in 1..Len(out) : out[i] = all[idx[i]]
    /\ \A i \in 1..Len(out) : \A j \in 1..Len(out) : i < j => idx[i] < idx[j]

\* C11: selectEvenlyDistributedFrames returns a subsequence of its input in
\* the original order, made only of thumbnails with timestamp > 0, taking no
\* input position twice, of length min(count, number of such thumbnails).
C11_SelectionIsOrderedSubsequence ==
  selection.called =>
    /\ IsSubsequence(selection.frames, selection.allThumbnails)
    /\ \A i \in 1..Len(selection.frames) : selection.frames[i].timestamp > 0
    /\ Len(selection.frames)
         = Min(selection.count, Cardinality(PositivePositions(selection.allThumbnails)))

\* a call that had to skip thumbnails: four positive timestamps and one that
\* is not, two frames asked for
C11_TwoOfFourSelected ==
  /\ selection.called
  /\ selection.count = 2
  /\ Len(selection.allThumbnails) = 5
  /\ Cardinality(PositivePositions(selection.allThumbnails)) = 4
  /\ selection.allThumbnails[1].timestamp = 0
  /\ Len(selection.frames) = 2

\* C12: loading of useMovies is true exactly while a getMovies request
\* started by fetchMovies is outstanding, and false once it has completed,
\* with data or with an error.
C12_LoadingWhileOutstanding ==
  listState.loading <=> listRequests > 0

\* a request failed after an earlier one had failed too, and none is left
C12_FailedRequestCleared ==
  /\ listRequests = 0
  /\ listState.error = FetchError
  /\ listState.retryCount = 2
  /\ ~listState.loading

\* C13: with no error, MovieList shows skeletons exactly when loading and
\* no data is present, the spinner exactly when loading and data is present,
\* and neither when loading is false.
C13_LoadingIndicators ==
  LET view == MovieListRender(listState)
  IN listState.error = NoValue =>
       /\ view.skeletons > 0 <=> (listState.loading /\ ~listState.data.present)
       /\ view.spinner <=> (listState.loading /\ listState.data.present)
       /\ ~listState.loading => (view.skeletons = 0 /\ ~view.spinner)

\* a page change is loading over the movies of the previous page
C13_SpinnerOverData ==
  /\ listState.loading /\ listState.data.present
  /\ Len(listState.data.movies) = 2
  /\ currentPage = 2
  /\ MovieListRender(listState).spinner
  /\ MovieListRender(listState).skeletons = 0

\* the text is the rating r (in hundredths) to one decimal place
OneDecimalOf(text, r) ==
  /\ text.tenth \in 0..9
  /\ text.units \in Nat
  /\ (text.units * 100 + text.tenth * 10) - r \in -5..5

\* C14: with no error and loading false, MovieList renders one card per
\* movie of the data, in list order; each card shows the movie's title,
\* year, genre and its rating to one decimal place, and links to
\* /movies/{id} of that movie.
C14_OneCardPerMovie ==
  LET view == MovieListRender(listState)
      movies == listState.data.movies
  IN (listState.error = NoValue /\ ~listState.loading /\ listState.data.present) =>
       /\ Len(view.cards) = Len(movies)
       /\ \A i \in 1..Len(movies) :
            /\ view.cards[i].title = movies[i].title
            /\ view.cards[i].year = movies[i].year
            /\ view.cards[i].genre = movies[i].genre
            /\ OneDecimalOf(view.cards[i].rating, movies[i].rating)
            /\ view.cards[i].href = <<"/movies/", movies[i].id>>

\* two movies with the same title are listed, the second with a rating that
\* rounds up to the next unit
C14_TwoCardsShown ==
  /\ listState.error = NoValue /\ ~listState.loading
  /\ Len(listState.data.movies) = 2
  /\ listState.data.movies[1].id = 3 /\ listState.data.movies[2].id = 2
  /\ MovieListRender(listState).cards[2].rating = [units |-> 10, tenth |-> 0]

\* C15: when start-full-system.sh has finished its startup sequence without
\* exiting with an error, all Docker services (PostgreSQL, Redis, MinIO,
\* Prometheus, Grafana), the Celery worker, the backend API and the
\* frontend have been started.
C15_AllServicesStarted ==
  scriptStep = "wait" => AllServices \subseteq running

\* C16: a task is not left in status uploading or processing once its
\* upload request has finished and its status polling has ended (after a
\* status-request error or the 30-minute cutoff) or was never started
\* (upload response without task_id).
C16_NoTaskLeftActive ==
  \A k \in Uploads : \A i \in TaskIndexes :
    (/\ uploadTasks[i].id = TaskId(k)
     /\ uploadPhase[k] = "done"
     /\ pollTimer[k] # "on"
     /\ pollResp[k] = EmptyBag)
      => uploadTasks[i].status \notin ActiveStatuses

\* the status response r of upload k is delivered in this step
Delivered(k, r) == BagIn(r, pollResp[k]) /\ pollResp'[k] = pollResp[k] (-) SetToBag({r})

RemovedOne ==
  /\ \E i \in TaskIndexes :
       uploadTasks' = SelectSeq(uploadTasks, LAMBDA task : task.id # uploadTasks[i].id)
  /\ Len(uploadTasks') = Len(uploadTasks) - 1
  /\ UNCHANGED <<dashVars, moviesData, uploadVars, pollVars>>

\* C18: a task stays in the task list until removeTask removes it: while
\* the videos tab stays selected, every step other than removeTask keeps
\* every task, and removeTask removes exactly the task with the given id.
C18_TasksKeptUntilRemoved ==
  [][(activeTab = "videos" /\ activeTab' = "videos")
       => \/ \A i \in TaskIndexes : \E j \in 1..Len(uploadTasks') :
               uploadTasks'[j].id = uploadTasks[i].id
          \/ RemovedOne]_vars

\* C19: AdminPage renders the AdminDashboard only when authentication has
\* finished loading and the user exists and is an admin; whenever the user
\* is absent or not an admin it has redirected to '/' and shows the
\* access-denied view instead of the dashboard.
C19_DashboardOnlyForAdmin ==
  /\ AdminPageView(adminPage, authLoading) = "dashboard"
       => (~authLoading /\ authUser # NoUser /\ authUser.is_admin)
  /\ (adminPage.mounted /\ ~authLoading /\ (authUser = NoUser \/ ~authUser.is_admin))
       => (adminPage.redirect /\ AdminPageView(adminPage, authLoading) = "denied")

\* this step is logout: user, token and the stored token are cleared and
\* initializeAuth has not moved
LogoutStep ==
  /\ authUser' = NoUser /\ authToken' = NoValue /\ storedToken' = NoValue
  /\ UNCHANGED <<authLoading, authInit, initToken, authCalls>>

\* C20: once login or register has succeeded, user and token stay set
\* until logout is called; a token validation that completes after the
\* login does not clear the session.
C20_SessionKeptUntilLogout ==
  [][(authUser # NoUser /\ authToken # NoValue)
       => \/ authUser' # NoUser /\ authToken' # NoValue
          \/ LogoutStep]_vars

\* user and token are both null or both set, and isAuthenticated tells
\* whether there is a user
UserAndTokenAgree ==
  /\ authUser = NoUser <=> authToken = NoValue
  /\ isAuthenticated <=> authToken # NoValue

\* a step that clears the stored token and changes the session while
\* initializeAuth and the login requests stand still: logout
LogoutCalled ==
  /\ authUser # NoUser
  /\ storedToken' = NoValue
  /\ authUser' # authUser \/ authToken' # authToken
  /\ UNCHANGED <<authLoading, authInit, initToken, authCalls>>

\* C21: in every state user and token are both null or both non-null and
\* isAuthenticated is true exactly when user is non-null; right after
\* logout both are null.
C21_UserAndTokenTogether ==
  /\ UserAndTokenAgree
  /\ [][/\ UserAndTokenAgree'
        /\ LogoutCalled => (authUser' = NoUser /\ authToken' = NoValue)]_vars

\* logged out after a login, with the first validation still in flight
C21_LoggedOutDuringValidation ==
  /\ authInit = "validating"
  /\ initToken = TokenOf(AdminUser)
  /\ storedToken = NoValue
  /\ authUser = NoUser /\ authToken = NoValue
  /\ ~isAuthenticated

\* C22: initialisation always finishes: isLoading becomes false in the end
\* and never becomes true again, whatever token was stored; when the
\* stored token fails validation, the stored token is cleared and user and
\* token are null.
C22_InitializationFinishes ==
  /\ <>[](~authLoading)
  /\ [][/\ ~authLoading => ~authLoading'
        /\ (authInit = "validating" /\ authInit' = "done")
             => /\ ~authLoading'
                /\ initToken = ExpiredToken
                     => (storedToken' = NoValue /\ authUser' = NoUser /\ authToken' = NoValue)]_vars

\* the stored token was not accepted: initialisation is over with nobody
\* signed in and the token store empty
C22_ExpiredTokenCleared ==
  /\ initToken = ExpiredToken
  /\ authInit = "done"
  /\ ~authLoading
  /\ storedToken = NoValue
  /\ authUser = NoUser /\ authToken = NoValue
  /\ authCalls = 0

====
